---- MODULE Spec2Model ----
(***************************************************************************)
(* Multi-CPU bring-up of the RVM1.5 hypervisor core: the VM path           *)
(* (vm_cpu_entry / vm_main), the RT path (rt_cpu_entry / rt_main), the     *)
(* per-CPU store, the APIC-id map and the AP trampoline driver             *)
(* (arch::cpu::start_rt_cpus).  Every atomic load, store or fetch-add of   *)
(* the source is one step of the CPU that executes it.                     *)
(***************************************************************************)
EXTENDS Integers, FiniteSets, Sequences, TLC

\* ------------------------------------------------------------------ bounds
\* Number of hardware CPUs of the machine, named 0 .. NCpus-1; CPU p reports
\* the APIC id lapic_id[p], which is p unless a specification says otherwise.
NCpus == 4
\* How many calls into the collaborators (page table, cell, LAPIC, Vcpu) may
\* fail or panic in one bring-up.
MaxFaults == 1
\* How many hardware CPUs the host driver enters on the VM path at most.
MaxVmCpus == 3
\* How many more CPUs than vm_cpus() the host driver may enter.
MaxExtra == 0

Cpus == 0 .. (NCpus - 1)
\* Logical CPU ids handed out by PerCpu::new (each CPU calls it at most once).
CpuIds == 0 .. (NCpus - 1)

\* ------------------------------------------------------- program constants
MAX_APIC_ID == 254
\* u32::MAX, the "not yet entered" sentinel of the map.  The model's integers
\* end at 2^31 - 1; all the code asks of the sentinel is to differ from
\* every cpu id.
U32_MAX == 2147483647
CONFIG_REVISION == 13
CONFIG_SIGNATURE == "RVMSYS"
\* The slots of APIC_TO_CPU_ID the model keeps: those of the dense APIC ids
\* and the last one, MAX_APIC_ID; no CPU of the model addresses another slot.
ApicSlots == Cpus \cup {MAX_APIC_ID}
\* The ids a local APIC can report: the slots and the first id past the map.
LapicIds == ApicSlots \cup {MAX_APIC_ID + 1}
PER_CPU_SIZE == 4096

\* Error numbers used by hv_result_err!; HvError::code() is what reaches
\* ERROR_NUM (a signed 32-bit value, 0 = healthy).
EIO == 5
EBUSY == 16
EINVAL == 22
ENOMEM == 12
ERANGE == 34
code(e) == 0 - e

\* Inputs the primary can find in the system configuration blob.
Signatures == {CONFIG_SIGNATURE, "WRONG!"}
Revisions == {CONFIG_REVISION, CONFIG_REVISION - 1}

VARIABLES
    header,          \* HvHeader: [max_cpus, rt_cpus]
    vmSet,           \* the hardware CPUs the host driver enters on the VM path
    lapic_id,        \* per hardware CPU: the id its local APIC reports
    pc,              \* per hardware CPU: its position in the code
    id,              \* per hardware CPU: PerCpu.id of its block (U32_MAX: none yet)
    err,             \* per hardware CPU: the code of the error vm_main returned
    ret,             \* per hardware CPU: the value vm_cpu_entry returned
    ENTERED_CPUS,
    ACTIVATED_CPUS,
    INITED_CPUS,
    INIT_EARLY_OK,
    INIT_LATE_OK,
    ERROR_NUM,
    APIC_TO_CPU_ID,  \* apic id -> cpu id, U32_MAX = not yet entered
    inner,           \* per block: "None" (never written), "Uninit", "Rt", "Vm"
    hv_pt_writer,    \* TRUE while the write guard of hv_page_table() is held
    start_page,      \* the trampoline page: [stub, cr3, entry, stack]
    backup,          \* start_rt_cpus' snapshot of the start page
    scan,            \* start_rt_cpus' locals: [apic_id, new_cpu_id, entered_cpus]
    ipis,            \* per target apic id: INIT and STARTUP IPIs sent so far, and
                     \* how many of the INITs shutdown_ap sent: [init, startup, halt]
    ap_stack,        \* per hardware CPU: the stack top its trampoline loaded
    system_config,   \* the config blob the primary read: [signature, revision]
    early_done,      \* the subsystems primary_init_early has initialised
    timed_out,       \* TRUE once an AP-arrival wait ended by its 100 ms timeout
    faults           \* how many calls into collaborators have failed so far

vars == <<header, vmSet, lapic_id, pc, id, err, ret, ENTERED_CPUS, ACTIVATED_CPUS,
          INITED_CPUS, INIT_EARLY_OK, INIT_LATE_OK, ERROR_NUM, APIC_TO_CPU_ID,
          inner, hv_pt_writer, start_page, backup, scan, ipis, ap_stack,
          system_config, early_done, timed_out, faults>>

\* Groups used by UNCHANGED.
cfgv == <<header, vmSet, lapic_id, faults>>
counters == <<ENTERED_CPUS, ACTIVATED_CPUS, INITED_CPUS>>
gates == <<INIT_EARLY_OK, INIT_LATE_OK>>
locals == <<id, err, ret>>
tramp == <<start_page, backup, scan, ipis, ap_stack, timed_out>>
early == <<system_config, early_done>>
percpu == <<APIC_TO_CPU_ID, inner, hv_pt_writer>>

\* ------------------------------------------------------------ pure helpers
\* Mutant of vm_cpus: a header with rt_cpus >= max_cpus leaves no VM CPU.
vm_cpus_ZeroWhenInvalid(h) ==
    IF h.rt_cpus < h.max_cpus THEN h.max_cpus - h.rt_cpus ELSE 0

\* Mutant of vm_cpus: the BSP left out of the count.
vm_cpus_ExclBsp(h) ==
    IF h.rt_cpus < h.max_cpus THEN h.max_cpus - h.rt_cpus - 1 ELSE h.max_cpus

vm_cpus(h) ==
    IF h.rt_cpus < h.max_cpus THEN h.max_cpus - h.rt_cpus ELSE h.max_cpus

\* Mutant of check: the revision is not compared.
check_SignatureOnly(cfg) ==
    IF cfg.signature # CONFIG_SIGNATURE THEN EINVAL ELSE 0

check(cfg) ==
    IF cfg.signature # CONFIG_SIGNATURE THEN EINVAL
    ELSE IF cfg.revision # CONFIG_REVISION THEN EINVAL
    ELSE 0

has_err == ERROR_NUM # 0

apic_to_cpu_id(apic_id) ==
    IF apic_id <= MAX_APIC_ID /\ apic_id \in DOMAIN APIC_TO_CPU_ID
    THEN APIC_TO_CPU_ID[apic_id]
    ELSE U32_MAX

stack_top(k) == k * PER_CPU_SIZE + PER_CPU_SIZE - 8

OrigPage == [stub |-> "orig", cr3 |-> "orig", entry |-> "orig", stack |-> 0]

IsPrimary(p) == id[p] = 0

Goto(p, l) == pc' = [pc EXCEPT ![p] = l]

\* A collaborator fails (Fault) or does not (NoFault).
Fault == faults < MaxFaults /\ faults' = faults + 1
NoFault == faults' = faults

\* An Err(e) that `?` carries up to vm_cpu_entry.
Fail(p, e) ==
    /\ pc' = [pc EXCEPT ![p] = "store_err"]
    /\ err' = [err EXCEPT ![p] = code(e)]

\* ---------------------------------------------------------------- Init
\* header.max_cpus is the number of CPUs of the machine; their APIC ids are
\* dense, as the scan of start_rt_cpus (cpu.rs:76) takes them to be.
Present(h) == 0 .. (h.max_cpus - 1)

Headers == {h \in [max_cpus : 1 .. NCpus, rt_cpus : 0 .. NCpus] :
               h.rt_cpus <= h.max_cpus}

\* The statics and every CPU's position before the first CPU enters.
Boot ==
    /\ pc = [p \in Cpus |-> IF p \in vmSet THEN "new_check" ELSE "off"]
    /\ id = [p \in Cpus |-> U32_MAX]
    /\ err = [p \in Cpus |-> 0]
    /\ ret = [p \in Cpus |-> 0]
    /\ ENTERED_CPUS = 0
    /\ ACTIVATED_CPUS = 0
    /\ INITED_CPUS = 0
    /\ INIT_EARLY_OK = 0
    /\ INIT_LATE_OK = 0
    /\ ERROR_NUM = 0
    /\ APIC_TO_CPU_ID = [a \in ApicSlots |-> U32_MAX]
    /\ inner = [k \in CpuIds |-> "None"]
    /\ hv_pt_writer = FALSE
    /\ start_page = OrigPage
    /\ backup = OrigPage
    /\ scan = [apic_id |-> 0, new_cpu_id |-> 0, entered_cpus |-> 0]
    /\ ipis = [a \in Cpus |-> [init |-> 0, startup |-> 0, halt |-> 0]]
    /\ ap_stack = [p \in Cpus |-> 0]
    /\ system_config = [signature |-> "", revision |-> 0]
    /\ early_done = {}
    /\ timed_out = FALSE
    /\ faults = 0

Init ==
    /\ header \in Headers
    /\ lapic_id = [p \in Cpus |-> p]
    /\ vmSet \in {s \in SUBSET Present(header) :
                    /\ s # {}
                    /\ Cardinality(s) <= MaxVmCpus
                    /\ Cardinality(s) <= vm_cpus(header) + MaxExtra}
    /\ Boot

\* ------------------------------------------------------------ PerCpu::new
\* percpu.rs:42-44: the bound check, a load of ENTERED_CPUS.
NewCheck(p) ==
    /\ pc[p] = "new_check"
    /\ IF ENTERED_CPUS >= header.max_cpus
       THEN IF p \in vmSet
            THEN /\ Goto(p, "returned")
                 /\ ret' = [ret EXCEPT ![p] = code(EINVAL)]
            ELSE /\ Goto(p, "halted")      \* rt_cpu_entry: expect() panics
                 /\ ret' = ret
       ELSE /\ Goto(p, "new_fetch")
            /\ ret' = ret
    /\ UNCHANGED <<cfgv, id, err, counters, gates, ERROR_NUM, percpu, tramp, early>>

\* percpu.rs:46-53: the fetch-add and the initialisation of the block.
NewFetch(p) ==
    /\ pc[p] = "new_fetch"
    /\ id' = [id EXCEPT ![p] = ENTERED_CPUS]
    /\ ENTERED_CPUS' = ENTERED_CPUS + 1
    /\ inner' = [inner EXCEPT ![ENTERED_CPUS] = "Uninit"]
    /\ Goto(p, IF p \in vmSet THEN "enter_err" ELSE "rt_activate")
    /\ UNCHANGED <<cfgv, err, ret, ACTIVATED_CPUS, INITED_CPUS, gates, ERROR_NUM,
                   APIC_TO_CPU_ID, hv_pt_writer, tramp, early>>

\* ------------------------------------------------- wait_for (main.rs:55-64)
Waits == {"enter", "early", "percpu", "late"}
AtErr == [enter |-> "enter_err", early |-> "early_err",
          percpu |-> "percpu_err", late |-> "late_err"]
AtCond == [enter |-> "enter_cond", early |-> "early_cond",
           percpu |-> "percpu_cond", late |-> "late_cond"]
AtFin == [enter |-> "enter_fin", early |-> "early_fin",
          percpu |-> "percpu_fin", late |-> "late_fin"]

\* Mutant of condition: the EARLY gate waits for INIT_EARLY_OK >= 0.
condition_EarlyZero(w) ==
    CASE w = "enter" -> ENTERED_CPUS < vm_cpus(header)
      [] w = "early" -> INIT_EARLY_OK < 0
      [] w = "percpu" -> INITED_CPUS < vm_cpus(header)
      [] w = "late" -> INIT_LATE_OK < 1

\* The closure each call site of vm_main passes to wait_for.
condition(w) ==
    CASE w = "enter" -> ENTERED_CPUS < vm_cpus(header)
      [] w = "early" -> INIT_EARLY_OK < 1
      [] w = "percpu" -> INITED_CPUS < vm_cpus(header)
      [] w = "late" -> INIT_LATE_OK < 1

\* Mutant of AfterWait: a secondary goes from the PERCPU barrier straight to
\* activate_vmm.
AfterWait_SkipLate(p, w) ==
    CASE w = "enter" -> IF IsPrimary(p) THEN "early_check" ELSE "early_err"
      [] w = "early" -> "ivc_activate"
      [] w = "percpu" -> IF IsPrimary(p) THEN "src_lock" ELSE "activate"
      [] w = "late" -> "activate"

\* Where vm_main continues when the wait returned Ok.
AfterWait(p, w) ==
    CASE w = "enter" -> IF IsPrimary(p) THEN "early_check" ELSE "early_err"
      [] w = "early" -> "ivc_activate"
      [] w = "percpu" -> IF IsPrimary(p) THEN "src_lock" ELSE "late_err"
      [] w = "late" -> "activate"

\* main.rs:56, left operand of the loop test: has_err().
WaitErr(p, w) ==
    /\ pc[p] = AtErr[w]
    /\ Goto(p, IF has_err THEN AtFin[w] ELSE AtCond[w])
    /\ UNCHANGED <<cfgv, locals, counters, gates, ERROR_NUM, percpu, tramp, early>>

\* main.rs:56, right operand of the loop test: condition().
WaitCond(p, w) ==
    /\ pc[p] = AtCond[w]
    /\ Goto(p, IF condition(w) THEN AtErr[w] ELSE AtFin[w])
    /\ UNCHANGED <<cfgv, locals, counters, gates, ERROR_NUM, percpu, tramp, early>>

\* Mutant of WaitFin: the wait returns Ok without the second has_err().
WaitFin_IgnoreErr(p, w) ==
    /\ pc[p] = AtFin[w]
    /\ Goto(p, AfterWait(p, w))
    /\ UNCHANGED <<cfgv, locals, counters, gates, ERROR_NUM, percpu, tramp, early>>

\* main.rs:59-63: the second has_err() decides the result.
WaitFin(p, w) ==
    /\ pc[p] = AtFin[w]
    /\ IF has_err
       THEN Fail(p, EBUSY)
       ELSE Goto(p, AfterWait(p, w)) /\ err' = err
    /\ UNCHANGED <<cfgv, id, ret, counters, gates, ERROR_NUM, percpu, tramp, early>>

\* ------------------------------------- primary_init_early (main.rs:70-107)
\* main.rs:74, 95, 96: read the config blob, init the heap, check the blob.
EarlyCheck(p) ==
    /\ pc[p] = "early_check"
    /\ \E sig \in Signatures, rev \in Revisions :
          LET cfg == [signature |-> sig, revision |-> rev] IN
          /\ system_config' = cfg
          /\ IF check(cfg) # 0
             THEN /\ Fail(p, check(cfg))
                  /\ early_done' = early_done \cup {"heap"}
             ELSE /\ Goto(p, "early_init")
                  /\ err' = err
                  /\ early_done' = early_done \cup {"heap", "config"}
    /\ UNCHANGED <<cfgv, id, ret, counters, gates, ERROR_NUM, percpu, tramp>>

\* main.rs:100-103: frame allocator and page table, cell::init(),
\* arch::init_early() (apic::init, EIO without a usable LAPIC), in this
\* order; the first call that fails ends primary_init_early with its error.
EarlySteps == <<"pagetable", "cell", "lapic">>
EarlyErrs == <<ENOMEM, ENOMEM, EIO>>

EarlyInit(p) ==
    /\ pc[p] = "early_init"
    /\ \/ /\ early_done' = early_done \cup {EarlySteps[i] : i \in 1 .. 3}
          /\ Goto(p, "early_store")
          /\ err' = err
          /\ NoFault
       \/ \E k \in 1 .. 3 :
             /\ early_done' = early_done \cup {EarlySteps[i] : i \in 1 .. (k - 1)}
             /\ Fail(p, EarlyErrs[k])
             /\ Fault
    /\ UNCHANGED <<header, vmSet, lapic_id, id, ret, counters, gates, ERROR_NUM, percpu, tramp,
                   system_config>>

\* main.rs:105.
EarlyStore(p) ==
    /\ pc[p] = "early_store"
    /\ INIT_EARLY_OK' = 1
    /\ Goto(p, "ivc_activate")
    /\ UNCHANGED <<cfgv, locals, counters, INIT_LATE_OK, ERROR_NUM, percpu, tramp,
                   early>>

\* ------------------------------------------------ apic.rs:100-107
\* Mutant of init_percpu_ok: the last slot of the map is refused.
init_percpu_ok_Below(p) == lapic_id[p] < MAX_APIC_ID

\* init_percpu run by hardware CPU p for its block cpu_id: the new map, or
\* the map unchanged when the APIC id is out of range (the caller gets ERANGE).
init_percpu_ok(p) == lapic_id[p] <= MAX_APIC_ID

init_percpu(p, cpu_id) ==
    IF init_percpu_ok(p)
    THEN [APIC_TO_CPU_ID EXCEPT ![lapic_id[p]] = cpu_id]
    ELSE APIC_TO_CPU_ID

\* ------------------------------------- PerCpu::init_vm_cpu (percpu.rs:69-89)
\* percpu.rs:76: take the read guard of the page table, activate, drop it.
IvcActivate(p) ==
    /\ pc[p] = "ivc_activate"
    /\ ~hv_pt_writer
    /\ Goto(p, "ivc_init")
    /\ UNCHANGED <<cfgv, locals, counters, gates, ERROR_NUM, percpu, tramp, early>>

\* percpu.rs:78-88: self.arch.init(self.id)? records the APIC id; then
\* Vcpu::new(..)? and the role assignment.  Vcpu::new allocates: it can
\* succeed, return an error, or run out of memory, which ends in the panic
\* handler (lang.rs:4-14) halting this CPU.
IvcInit(p) ==
    /\ pc[p] = "ivc_init"
    /\ APIC_TO_CPU_ID' = init_percpu(p, id[p])
    /\ IF ~init_percpu_ok(p)
       THEN Fail(p, ERANGE) /\ inner' = inner /\ NoFault
       ELSE \/ /\ inner' = [inner EXCEPT ![id[p]] = "Vm"]
               /\ Goto(p, "inited_add")
               /\ err' = err
               /\ NoFault
            \/ /\ inner' = inner
               /\ Fail(p, ENOMEM)
               /\ Fault
            \/ /\ inner' = inner
               /\ Goto(p, "halted")
               /\ err' = err
               /\ Fault
    /\ UNCHANGED <<header, vmSet, lapic_id, id, ret, counters, gates, ERROR_NUM, hv_pt_writer,
                   tramp, early>>

\* main.rs:137.
InitedAdd(p) ==
    /\ pc[p] = "inited_add"
    /\ INITED_CPUS' = INITED_CPUS + 1
    /\ Goto(p, "percpu_err")
    /\ UNCHANGED <<cfgv, locals, ENTERED_CPUS, ACTIVATED_CPUS, gates, ERROR_NUM,
                   percpu, tramp, early>>

\* ----------------------------------- arch::cpu::start_rt_cpus (cpu.rs:45-96)
\* cpu.rs:54-72: take the write guard and map the start page (a failing
\* insert returns its error and the guard is dropped on the way out);
\* snapshot the page, copy the stub, fill the cr3 and entry slots.
SrcLock(p) ==
    /\ pc[p] = "src_lock"
    /\ ~hv_pt_writer
    /\ \/ /\ hv_pt_writer' = TRUE
          /\ backup' = start_page
          /\ start_page' = [start_page EXCEPT !.stub = "ap_start", !.cr3 = "hv_cr3",
                                              !.entry = "rt_cpu_entry"]
          /\ Goto(p, "src_read")
          /\ err' = err
          /\ NoFault
       \/ /\ UNCHANGED <<hv_pt_writer, backup, start_page>>
          /\ Fail(p, ENOMEM)
          /\ Fault
    /\ UNCHANGED <<header, vmSet, lapic_id, id, ret, counters, gates, ERROR_NUM, APIC_TO_CPU_ID,
                   inner, scan, ipis, ap_stack, timed_out, early>>

\* cpu.rs:74-76: new_cpu_id = entered_cpus(), apic_id = 0.
SrcRead(p) ==
    /\ pc[p] = "src_read"
    /\ scan' = [scan EXCEPT !.apic_id = 0, !.new_cpu_id = ENTERED_CPUS]
    /\ Goto(p, "src_loop")
    /\ UNCHANGED <<cfgv, locals, counters, gates, ERROR_NUM, percpu, start_page,
                   backup, ipis, ap_stack, timed_out, early>>

\* cpu.rs:76-80: the loop test, the map lookup and the break.
SrcLoop(p) ==
    /\ pc[p] = "src_loop"
    /\ IF scan.apic_id >= header.max_cpus
       THEN Goto(p, "src_restore") /\ scan' = scan
       ELSE IF apic_to_cpu_id(scan.apic_id) = U32_MAX
            THEN /\ Goto(p, IF scan.new_cpu_id >= header.max_cpus
                            THEN "src_restore" ELSE "src_snap")
                 /\ scan' = scan
            ELSE /\ scan' = [scan EXCEPT !.apic_id = @ + 1]
                 /\ pc' = pc
    /\ UNCHANGED <<cfgv, locals, counters, gates, ERROR_NUM, percpu, start_page,
                   backup, ipis, ap_stack, timed_out, early>>

\* cpu.rs:81.
SrcSnap(p) ==
    /\ pc[p] = "src_snap"
    /\ scan' = [scan EXCEPT !.entered_cpus = ENTERED_CPUS]
    /\ Goto(p, "src_start")
    /\ UNCHANGED <<cfgv, locals, counters, gates, ERROR_NUM, percpu, start_page,
                   backup, ipis, ap_stack, timed_out, early>>

\* apic.rs:109-124: INIT, STARTUP, STARTUP to apic_id.
start_ap(apic_id) ==
    [ipis EXCEPT ![apic_id].init = @ + 1, ![apic_id].startup = @ + 2]

\* cpu.rs:82-85: stack slot, INIT-SIPI-SIPI, new_cpu_id += 1.  A CPU that is
\* waiting for a SIPI either starts the trampoline or does not respond.
SrcStartAp(p) ==
    /\ pc[p] = "src_start"
    /\ start_page' = [start_page EXCEPT !.stack = stack_top(scan.new_cpu_id)]
    /\ ipis' = start_ap(scan.apic_id)
    /\ scan' = [scan EXCEPT !.new_cpu_id = @ + 1]
    /\ \E responds \in BOOLEAN :
          pc' = [q \in Cpus |->
                   IF q = p THEN "src_wait"
                   ELSE IF lapic_id[q] = scan.apic_id /\ pc[q] = "off" /\ responds
                        THEN "tramp" ELSE pc[q]]
    /\ UNCHANGED <<cfgv, locals, counters, gates, ERROR_NUM, percpu, backup,
                   ap_stack, timed_out, early>>

\* cpu.rs:89, loop left because ENTERED_CPUS grew.
SrcWaitArrived(p) ==
    /\ pc[p] = "src_wait"
    /\ ENTERED_CPUS > scan.entered_cpus
    /\ scan' = [scan EXCEPT !.apic_id = @ + 1]
    /\ Goto(p, "src_loop")
    /\ UNCHANGED <<cfgv, locals, counters, gates, ERROR_NUM, percpu, start_page,
                   backup, ipis, ap_stack, timed_out, early>>

\* Mutant of SrcWaitTimeout: a candidate that does not arrive is an error.
SrcWaitTimeout_Fatal(p) ==
    /\ pc[p] = "src_wait"
    /\ ENTERED_CPUS <= scan.entered_cpus
    /\ timed_out' = TRUE
    /\ start_page' = backup
    /\ hv_pt_writer' = FALSE
    /\ Fail(p, EBUSY)
    /\ UNCHANGED <<cfgv, id, ret, counters, gates, ERROR_NUM, APIC_TO_CPU_ID, inner,
                   backup, scan, ipis, ap_stack, early>>

\* cpu.rs:88-89, loop left because 100 ms passed.
SrcWaitTimeout(p) ==
    /\ pc[p] = "src_wait"
    /\ ENTERED_CPUS <= scan.entered_cpus
    /\ timed_out' = TRUE
    /\ scan' = [scan EXCEPT !.apic_id = @ + 1]
    /\ Goto(p, "src_loop")
    /\ UNCHANGED <<cfgv, locals, counters, gates, ERROR_NUM, percpu, start_page,
                   backup, ipis, ap_stack, early>>

\* Mutant of SrcRestore: the write guard of the page table is never dropped.
SrcRestore_KeepGuard(p) ==
    /\ pc[p] = "src_restore"
    /\ start_page' = backup
    /\ Goto(p, "late_store")
    /\ UNCHANGED <<cfgv, locals, counters, gates, ERROR_NUM, percpu, backup, scan,
                   ipis, ap_stack, timed_out, early>>

\* Mutant of SrcRestore: the start page is not copied back.
SrcRestore_NoCopy(p) ==
    /\ pc[p] = "src_restore"
    /\ hv_pt_writer' = FALSE
    /\ Goto(p, "late_store")
    /\ UNCHANGED <<cfgv, locals, counters, gates, ERROR_NUM, APIC_TO_CPU_ID, inner,
                   start_page, backup, scan, ipis, ap_stack, timed_out, early>>

\* cpu.rs:94-96: restore the page; the write guard is dropped on return.
SrcRestore(p) ==
    /\ pc[p] = "src_restore"
    /\ start_page' = backup
    /\ hv_pt_writer' = FALSE
    /\ Goto(p, "late_store")
    /\ UNCHANGED <<cfgv, locals, counters, gates, ERROR_NUM, APIC_TO_CPU_ID, inner,
                   backup, scan, ipis, ap_stack, timed_out, early>>

\* main.rs:114.
LateStore(p) ==
    /\ pc[p] = "late_store"
    /\ INIT_LATE_OK' = 1
    /\ Goto(p, "activate")
    /\ UNCHANGED <<cfgv, locals, counters, INIT_EARLY_OK, ERROR_NUM, percpu, tramp,
                   early>>

\* --------------------------- VmPerCpuData::activate_vmm (percpu.rs:125-131)
\* The fetch-add, then vcpu.enter(..)?, which either enters the guest for
\* good or fails.
activate_vmm(p) ==
    /\ pc[p] = "activate"
    /\ ACTIVATED_CPUS' = ACTIVATED_CPUS + 1
    /\ \/ Goto(p, "guest") /\ err' = err /\ NoFault
       \/ Fail(p, EIO) /\ Fault
    /\ UNCHANGED <<header, vmSet, lapic_id, id, ret, ENTERED_CPUS, INITED_CPUS, gates,
                   ERROR_NUM, percpu, tramp, early>>

\* ------------------------- VmPerCpuData::deactivate_vmm (percpu.rs:133-141)
\* Called for a CPU that is in the guest: the fetch-sub, then vcpu.exit(..)?,
\* which either succeeds, and the CPU returns to Linux for good, or fails,
\* and the error goes back to the caller of deactivate_vmm.
deactivate_vmm(p) ==
    /\ pc[p] = "guest"
    /\ ACTIVATED_CPUS' = ACTIVATED_CPUS - 1
    /\ \/ Goto(p, "linux") /\ NoFault
       \/ Goto(p, "exit_failed") /\ Fault
    /\ UNCHANGED <<header, vmSet, lapic_id, locals, ENTERED_CPUS, INITED_CPUS, gates,
                   ERROR_NUM, percpu, tramp, early>>

\* ------------------------------------------ vm_cpu_entry (main.rs:157-169)
\* main.rs:160.
StoreErr(p) ==
    /\ pc[p] = "store_err"
    /\ ERROR_NUM' = err[p]
    /\ Goto(p, "load_err")
    /\ UNCHANGED <<cfgv, locals, counters, gates, percpu, tramp, early>>

\* Mutant of LoadErr: the code is taken out of ERROR_NUM (a swap with 0).
LoadErr_Swap(p) ==
    /\ pc[p] = "load_err"
    /\ ret' = [ret EXCEPT ![p] = ERROR_NUM]
    /\ ERROR_NUM' = 0
    /\ Goto(p, "returned")
    /\ UNCHANGED <<cfgv, id, err, counters, gates, percpu, tramp, early>>

\* main.rs:162-168.
LoadErr(p) ==
    /\ pc[p] = "load_err"
    /\ ret' = [ret EXCEPT ![p] = ERROR_NUM]
    /\ Goto(p, "returned")
    /\ UNCHANGED <<cfgv, id, err, counters, gates, ERROR_NUM, percpu, tramp, early>>

\* ------------------------------------------------------------- the RT path
\* The trampoline stub of a woken AP reads its parameters from the start
\* page and jumps to rt_cpu_entry (main.rs:171-174).  When the page no
\* longer holds the stub, the AP runs the page's old contents and is lost.
ApTramp(p) ==
    /\ pc[p] = "tramp"
    /\ IF start_page.stub = "ap_start"
       THEN /\ ap_stack' = [ap_stack EXCEPT ![p] = start_page.stack]
            /\ Goto(p, "new_check")
       ELSE /\ ap_stack' = ap_stack
            /\ Goto(p, "lost")
    /\ UNCHANGED <<cfgv, locals, counters, gates, ERROR_NUM, percpu, start_page,
                   backup, scan, ipis, timed_out, early>>

\* percpu.rs:95: the read guard of the page table, activate, drop.
RtActivate(p) ==
    /\ pc[p] = "rt_activate"
    /\ ~hv_pt_writer
    /\ Goto(p, "rt_arch")
    /\ UNCHANGED <<cfgv, locals, counters, gates, ERROR_NUM, percpu, tramp, early>>

\* Mutant of RtArchInit: the block is given the VM role.
RtArchInit_AsVm(p) ==
    /\ pc[p] = "rt_arch"
    /\ APIC_TO_CPU_ID' = init_percpu(p, id[p])
    /\ IF init_percpu_ok(p)
       THEN /\ inner' = [inner EXCEPT ![id[p]] = "Vm"]
            /\ Goto(p, "rt_loop")
       ELSE /\ inner' = inner
            /\ Goto(p, "halted")
    /\ UNCHANGED <<cfgv, locals, counters, gates, ERROR_NUM, hv_pt_writer, tramp,
                   early>>

\* percpu.rs:97-104 and main.rs:151-154: arch init, role, then spin
\* forever; an error is unwrap()ped into a panic.
RtArchInit(p) ==
    /\ pc[p] = "rt_arch"
    /\ APIC_TO_CPU_ID' = init_percpu(p, id[p])
    /\ IF init_percpu_ok(p)
       THEN /\ inner' = [inner EXCEPT ![id[p]] = "Rt"]
            /\ Goto(p, "rt_loop")
       ELSE /\ inner' = inner
            /\ Goto(p, "halted")
    /\ UNCHANGED <<cfgv, locals, counters, gates, ERROR_NUM, hv_pt_writer, tramp,
                   early>>

\* ------------------------------------- shutdown (boot_rt.rs:62-68)
\* apic.rs:126-135: one INIT IPI to apic_id.
shutdown_ap(ip, apic_id) ==
    [ip EXCEPT ![apic_id].init = @ + 1, ![apic_id].halt = @ + 1]

\* boot_rt.rs:64: the APIC ids the loop visits.
ShutdownTargets == vm_cpus(header) .. (header.max_cpus - 1)

\* boot_rt.rs:62-68, called once by a CPU that is in the guest (the host
\* asks the hypervisor to give the RT cores back).  A core outside the VM
\* path that receives INIT goes back to waiting for a SIPI.
shutdown_rt_cpus(p) ==
    /\ pc[p] = "guest"
    /\ \A a \in DOMAIN ipis : ipis[a].halt = 0
    /\ ShutdownTargets # {}
    /\ ipis' = [a \in DOMAIN ipis |->
                  IF a \in ShutdownTargets THEN shutdown_ap(ipis, a)[a] ELSE ipis[a]]
    /\ pc' = [q \in Cpus |->
                IF lapic_id[q] \in ShutdownTargets /\ q \notin vmSet
                THEN "off" ELSE pc[q]]
    /\ UNCHANGED <<cfgv, locals, counters, gates, ERROR_NUM, percpu, start_page,
                   backup, scan, ap_stack, timed_out, early>>

\* ------------------------------------------------------------------- Next
Step(p) ==
    \/ NewCheck(p)
    \/ NewFetch(p)
    \/ \E w \in Waits : WaitErr(p, w)
    \/ \E w \in Waits : WaitCond(p, w)
    \/ \E w \in Waits : WaitFin(p, w)
    \/ EarlyCheck(p)
    \/ EarlyInit(p)
    \/ EarlyStore(p)
    \/ IvcActivate(p)
    \/ IvcInit(p)
    \/ InitedAdd(p)
    \/ SrcLock(p)
    \/ SrcRead(p)
    \/ SrcLoop(p)
    \/ SrcSnap(p)
    \/ SrcStartAp(p)
    \/ SrcWaitArrived(p)
    \/ SrcWaitTimeout(p)
    \/ SrcRestore(p)
    \/ LateStore(p)
    \/ activate_vmm(p)
    \/ StoreErr(p)
    \/ LoadErr(p)
    \/ ApTramp(p)
    \/ RtActivate(p)
    \/ RtArchInit(p)

Next == \E p \in Cpus : Step(p)

Spec == Init /\ [][Next]_vars

\* The liveness claims are checked on the machines with fewer than NCpus
\* CPUs and on the 4-CPU machine with one RT CPU and three VM CPUs.  Every
\* CPU that is executing code keeps executing it, and time passes (an
\* AP-arrival wait ends by arrival or by its timeout).
FairInit ==
    /\ Init
    /\ \/ header.max_cpus < NCpus
       \/ header.rt_cpus = 1 /\ Cardinality(vmSet) = NCpus - 1

FairSpec == FairInit /\ [][Next]_vars /\ \A p \in Cpus : WF_vars(Step(p))

\* The bring-ups with at least one RT CPU and at most two VM CPUs, every CPU
\* that can take a step eventually taking one.
RtFairInit ==
    /\ Init
    /\ header.rt_cpus >= 1
    /\ header.rt_cpus < header.max_cpus
    /\ vm_cpus(header) <= 2

RtFairSpec == RtFairInit /\ [][Next]_vars /\ \A p \in Cpus : WF_vars(Step(p))

\* The host driver enters any one or two CPUs of the machine, also more of
\* them than the header's max_cpus, which is at most 2 here.
OverInit ==
    /\ header \in Headers
    /\ lapic_id = [p \in Cpus |-> p]
    /\ header.max_cpus <= 2
    /\ vmSet \in {s \in SUBSET Cpus : s # {} /\ Cardinality(s) <= 2}
    /\ Boot

OverSpec == OverInit /\ [][Next]_vars

\* PerCpu::init_vm_cpu as a function of the block it is called on: every CPU
\* owns a block, in any of the three roles, early init is done, and each CPU
\* calls init_vm_cpu on its block the way vm_main does (main.rs:135-137).
DirectInit ==
    /\ header = [max_cpus |-> NCpus, rt_cpus |-> 0]
    /\ vmSet = Cpus
    /\ lapic_id = [p \in Cpus |-> p]
    /\ pc = [p \in Cpus |-> "ivc_activate"]
    /\ id = [p \in Cpus |-> p]
    /\ err = [p \in Cpus |-> 0]
    /\ ret = [p \in Cpus |-> 0]
    /\ ENTERED_CPUS = NCpus
    /\ ACTIVATED_CPUS = 0
    /\ INITED_CPUS = 0
    /\ INIT_EARLY_OK = 1
    /\ INIT_LATE_OK = 0
    /\ ERROR_NUM = 0
    /\ APIC_TO_CPU_ID = [a \in ApicSlots |-> U32_MAX]
    /\ inner \in [CpuIds -> {"Uninit", "Rt", "Vm"}]
    /\ hv_pt_writer = FALSE
    /\ start_page = OrigPage
    /\ backup = OrigPage
    /\ scan = [apic_id |-> 0, new_cpu_id |-> 0, entered_cpus |-> 0]
    /\ ipis = [a \in Cpus |-> [init |-> 0, startup |-> 0, halt |-> 0]]
    /\ ap_stack = [p \in Cpus |-> 0]
    /\ system_config = [signature |-> CONFIG_SIGNATURE, revision |-> CONFIG_REVISION]
    /\ early_done = {"heap", "config", "pagetable", "cell", "lapic"}
    /\ timed_out = FALSE
    /\ faults = 0

DirectNext == \E p \in Cpus : IvcActivate(p) \/ IvcInit(p) \/ InitedAdd(p)

DirectSpec == DirectInit /\ [][DirectNext]_vars

\* Machines of at most two CPUs whose local APICs report ids up to the end
\* of the map and one past it.
ApicInit ==
    /\ header \in Headers
    /\ header.max_cpus <= 2
    /\ lapic_id \in {f \in [Cpus -> LapicIds] :
                       /\ \A p \in Cpus : f[p] \in {p, MAX_APIC_ID, MAX_APIC_ID + 1}
                       /\ \A p, q \in Cpus : p # q => f[p] # f[q]}
    /\ vmSet \in {s \in SUBSET Present(header) :
                    s # {} /\ Cardinality(s) <= vm_cpus(header)}
    /\ Boot

ApicSpec == ApicInit /\ [][Next]_vars

\* Bring-up of a machine of at most three CPUs, followed by the shutdown of
\* its RT cores.
ShutdownInit == Init /\ header.max_cpus <= 3

ShutdownNext == Next \/ \E p \in Cpus : shutdown_rt_cpus(p)

ShutdownSpec == ShutdownInit /\ [][ShutdownNext]_vars

\* Headers that leave no room for an RT CPU (rt_cpus >= max_cpus), with every
\* CPU of the machine entered on the VM path, and the two-CPU machine with
\* one RT CPU; every CPU that can take a step eventually takes one.
NoRtHeaders == {h \in [max_cpus : 1 .. MaxVmCpus, rt_cpus : 1 .. (MaxVmCpus + 1)] :
                   h.rt_cpus \in {h.max_cpus, h.max_cpus + 1}}

NoRtFairInit ==
    /\ \/ header \in NoRtHeaders /\ vmSet = Present(header)
       \/ /\ header = [max_cpus |-> 2, rt_cpus |-> 1]
          /\ vmSet \in {{0}, {1}}
    /\ lapic_id = [p \in Cpus |-> p]
    /\ Boot

NoRtFairSpec == NoRtFairInit /\ [][Next]_vars /\ \A p \in Cpus : WF_vars(Step(p))

\* Every header of a machine of up to NCpus CPUs, rt_cpus above max_cpus
\* and max_cpus = 0 included, with CPU 0 alone entered on the VM path.
AllHeaders == [max_cpus : 0 .. NCpus, rt_cpus : 0 .. (NCpus + 1)]

HeaderInit ==
    /\ header \in AllHeaders
    /\ vmSet = {0}
    /\ lapic_id = [p \in Cpus |-> p]
    /\ Boot

HeaderSpec == HeaderInit /\ [][Next]_vars

\* Machines of at most three CPUs on which the host driver enters up to one
\* CPU more than vm_cpus() on the VM path (PerCpu::new accepts callers up to
\* max_cpus).
ExtraInit ==
    /\ header \in Headers
    /\ header.max_cpus <= 3
    /\ lapic_id = [p \in Cpus |-> p]
    /\ vmSet \in {s \in SUBSET Present(header) :
                    s # {} /\ Cardinality(s) <= vm_cpus(header) + 1}
    /\ Boot

ExtraSpec == ExtraInit /\ [][Next]_vars

\* Bring-up of a machine of at most three CPUs, with VM CPUs that are in the
\* guest being deactivated again.
DeactivateInit == Init /\ header.max_cpus <= 3

DeactivateNext == Next \/ \E p \in Cpus : deactivate_vmm(p)

DeactivateSpec == DeactivateInit /\ [][DeactivateNext]_vars

TypeOK ==
    /\ header \in Headers
    /\ lapic_id \in [Cpus -> LapicIds]
    /\ APIC_TO_CPU_ID \in [ApicSlots -> CpuIds \cup {U32_MAX}]
    /\ vmSet \subseteq Cpus
    /\ ENTERED_CPUS \in 0 .. NCpus
    /\ INITED_CPUS \in 0 .. NCpus
    /\ ACTIVATED_CPUS \in 0 .. NCpus

\* ====================================================================
\* Properties
\* ====================================================================
VmPcsFromInit == {"ivc_activate", "ivc_init", "inited_add",
                  "percpu_err", "percpu_cond", "percpu_fin",
                  "src_lock", "src_read", "src_loop", "src_snap", "src_start",
                  "src_wait", "src_restore", "late_store",
                  "late_err", "late_cond", "late_fin", "activate", "guest"}
AfterLatePcs == {"activate", "guest", "store_err", "load_err", "returned"}
VmBlocks == {k \in CpuIds : inner[k] = "Vm"}
RtBlocks == {k \in CpuIds : inner[k] = "Rt"}
Secondaries == {p \in vmSet : id[p] # U32_MAX /\ id[p] # 0}

\* C1: a CPU is at, or past, the call of activate_vmm only when
\* INITED_CPUS has reached vm_cpus with that many blocks in role VM, and the
\* primary has left primary_init_late with Ok: start_rt_cpus has returned
\* (write guard dropped) and INIT_LATE_OK is 1.
C1_ActivateAfterInitAndLate ==
    (ACTIVATED_CPUS > 0 \/ \E p \in Cpus : pc[p] \in {"activate", "guest"})
    => /\ INITED_CPUS >= vm_cpus(header)
       /\ Cardinality(VmBlocks) >= vm_cpus(header)
       /\ INIT_LATE_OK = 1
       /\ ~hv_pt_writer
       /\ \E p \in Cpus : IsPrimary(p) /\ pc[p] \in AfterLatePcs

C1_Witness ==
    \E p \in Cpus : ~IsPrimary(p) /\ pc[p] = "guest" /\ RtBlocks # {}

\* C2: a CPU has begun init_vm_cpu (or a map slot is written, or
\* INITED_CPUS is above 0) only when primary_init_early has completed on the
\* primary: heap, config check, page table, cell and LAPIC are initialised
\* and INIT_EARLY_OK is 1.
EarlyAll == {"heap", "config", "pagetable", "cell", "lapic"}

C2_InitAfterEarly ==
    (\/ \E p \in Cpus : pc[p] \in VmPcsFromInit
     \/ INITED_CPUS > 0
     \/ \E a \in DOMAIN APIC_TO_CPU_ID : APIC_TO_CPU_ID[a] # U32_MAX)
    => /\ INIT_EARLY_OK = 1
       /\ early_done = EarlyAll
       /\ check(system_config) = 0

C2_Witness ==
    \E p \in Cpus : ~IsPrimary(p) /\ pc[p] = "ivc_init" /\ INIT_EARLY_OK = 1

\* C3: the step by which a wait of vm_main returns is either the EBUSY
\* error, taken exactly when ERROR_NUM is non-zero at that load, or Ok, and
\* then ERROR_NUM is 0 and the counter is at least its bound (vm_cpus for
\* the ENTER and PERCPU barriers, 1 for the two gates).
CounterOf(w) ==
    CASE w = "enter" -> ENTERED_CPUS
      [] w = "early" -> INIT_EARLY_OK
      [] w = "percpu" -> INITED_CPUS
      [] w = "late" -> INIT_LATE_OK
BoundOf(w) == IF w \in {"enter", "percpu"} THEN vm_cpus(header) ELSE 1

C3_WaitReturn ==
    [][\A p \in Cpus, w \in Waits :
          (pc[p] = AtFin[w] /\ pc'[p] # AtFin[w])
          => \/ /\ ERROR_NUM # 0
                /\ pc'[p] = "store_err"
                /\ err'[p] = code(EBUSY)
             \/ /\ ERROR_NUM = 0
                /\ CounterOf(w) >= BoundOf(w)
                /\ pc'[p] = AfterWait(p, w)]_vars

\* A CPU at the second has_err() of the PERCPU barrier whose counter has
\* reached vm_cpus while ERROR_NUM is set: it is about to return EBUSY.
C3_Witness ==
    \E p \in Cpus :
       /\ pc[p] = AtFin["percpu"]
       /\ INITED_CPUS >= vm_cpus(header)
       /\ ERROR_NUM # 0

\* C4: once ERROR_NUM is non-zero no CPU goes into activate_vmm any more
\* (ACTIVATED_CPUS does not grow, no CPU enters the guest), and a CPU at the
\* head of a wait loop leaves the loop at that poll.
C4_NoActivateAfterError ==
    [][ERROR_NUM # 0
       => /\ ACTIVATED_CPUS' = ACTIVATED_CPUS
          /\ \A p \in Cpus : pc'[p] = "guest" => pc[p] = "guest"
          /\ \A p \in Cpus, w \in Waits :
                (pc[p] = AtErr[w] /\ pc'[p] # pc[p]) => pc'[p] = AtFin[w]]_vars

\* C5: a CPU that has returned from vm_cpu_entry after its vm_main failed
\* with code e returned e (EBUSY for a CPU whose wait was aborted).
C5_ReturnsOwnCode ==
    \A p \in Cpus : (pc[p] = "returned" /\ err[p] # 0) => ret[p] = err[p]

\* C6: ERROR_NUM never goes back to 0, and every store to it writes a
\* non-zero code.
C6_StickyError ==
    [][/\ ERROR_NUM # 0 => ERROR_NUM' # 0
       /\ ERROR_NUM' # ERROR_NUM => ERROR_NUM' # 0]_vars

C6_Witness ==
    /\ ERROR_NUM = code(EBUSY)
    /\ \E p \in Cpus : pc[p] = "returned" /\ err[p] # code(EBUSY)
    /\ \E q \in Cpus : \E w \in Waits : pc[q] = AtErr[w]

\* C7: when a VM CPU has panicked in init_vm_cpu and halted, every other
\* VM CPU eventually is back in the driver with EBUSY, and ACTIVATED_CPUS is 0.
Panicked == \E p \in vmSet : pc[p] = "halted"

C7_PeersReturnAfterPanic ==
    /\ [](Panicked => ACTIVATED_CPUS = 0)
    /\ Panicked ~> (\A q \in vmSet : \/ pc[q] = "halted"
                                     \/ pc[q] = "returned" /\ ret[q] = code(EBUSY))

\* C8: when the config the primary read has a wrong signature or a wrong
\* revision, primary_init_early returns EINVAL, INIT_EARLY_OK stays 0, no CPU
\* runs init_vm_cpu or activate_vmm, and eventually ERROR_NUM is non-zero and
\* every secondary VM CPU is back in the driver with EBUSY.
ConfigRead == system_config.signature # ""
BadConfig ==
    /\ ConfigRead
    /\ \/ system_config.signature # CONFIG_SIGNATURE
       \/ system_config.revision # CONFIG_REVISION

C8_Safe ==
    /\ \A p \in Cpus : IsPrimary(p) =>
          /\ pc[p] \in {"store_err", "load_err", "returned"}
          /\ err[p] = code(EINVAL)
          /\ pc[p] # "store_err" => ERROR_NUM # 0
    /\ INIT_EARLY_OK = 0
    /\ \A p \in Cpus : pc[p] \notin VmPcsFromInit
    /\ INITED_CPUS = 0 /\ ACTIVATED_CPUS = 0
    /\ VmBlocks = {}
    /\ \A a \in DOMAIN APIC_TO_CPU_ID : APIC_TO_CPU_ID[a] = U32_MAX

C8_SecondariesBack ==
    /\ ERROR_NUM # 0
    /\ \A q \in vmSet : IsPrimary(q) \/ pc[q] = "returned"
    /\ \A q \in Secondaries : ret[q] = code(EBUSY)

C8_BadConfigAborts ==
    /\ [](BadConfig => C8_Safe)
    /\ BadConfig ~> C8_SecondariesBack

C8_Witness ==
    /\ system_config.signature = CONFIG_SIGNATURE
    /\ system_config.revision # CONFIG_REVISION
    /\ C8_SecondariesBack
    /\ Cardinality(Secondaries) >= 2

\* C9: max_cpus = 4, rt_cpus = 1, three VM CPUs entered by the driver: unless
\* a collaborator fails, the config is bad or an AP-arrival wait times out,
\* the bring-up eventually has ENTERED_CPUS = 4, INITED_CPUS = 3, the three
\* VM CPUs in role VM and in the guest, exactly one block in role RT, and
\* ERROR_NUM = 0.
Scen9 == header = [max_cpus |-> 4, rt_cpus |-> 1] /\ Cardinality(vmSet) = 3
Disturbed == faults > 0 \/ timed_out \/ BadConfig
Goal9 ==
    /\ ENTERED_CPUS = 4
    /\ INITED_CPUS = 3
    /\ ACTIVATED_CPUS = 3
    /\ \A p \in vmSet : pc[p] = "guest" /\ inner[id[p]] = "Vm"
    /\ Cardinality(RtBlocks) = 1
    /\ \A p \in Present(header) \ vmSet : pc[p] = "rt_loop" /\ inner[id[p]] = "Rt"
    /\ ERROR_NUM = 0

C9_BringUpCompletes == Scen9 => <>(Goal9 \/ Disturbed)

C9_Witness == Scen9 /\ Goal9 /\ ~Disturbed

\* C10 as stated: max_cpus = 2, rt_cpus = 0 and only the BSP entered: the
\* BSP eventually gets to activate_vmm.
Scen10 == header = [max_cpus |-> 2, rt_cpus |-> 0] /\ Cardinality(vmSet) = 1

C10_BspActivatesAlone ==
    Scen10 => <>(\E p \in vmSet : pc[p] \in {"activate", "guest"})

\* C10 as amended: in that scenario the ENTER barrier does not release; the
\* BSP stays in the loop of the ENTER wait with ENTERED_CPUS = 1 < vm_cpus = 2
\* and never gets to activate_vmm.
C10_BspStaysInEnterWait ==
    Scen10 => /\ \A p \in vmSet :
                    pc[p] \in {"new_check", "new_fetch", "enter_err", "enter_cond"}
              /\ ENTERED_CPUS <= 1
              /\ ACTIVATED_CPUS = 0

C10_Witness ==
    Scen10 /\ \E p \in vmSet : pc[p] = "enter_cond" /\ IsPrimary(p)
           /\ ENTERED_CPUS = 1

\* C11: whenever no CPU is inside start_rt_cpus after its snapshot (it has
\* not been called, has failed before the snapshot, or has returned), the
\* start page holds the contents it had before the call, whichever of the
\* candidate APs arrived or timed out.
SrcPcs == {"src_read", "src_loop", "src_snap", "src_start", "src_wait",
           "src_restore"}

C11_StartPageRestored ==
    (\A p \in Cpus : pc[p] \notin SrcPcs) => start_page = OrigPage

\* start_rt_cpus has returned after one candidate arrived and another one
\* timed out.
C11_Witness ==
    /\ \E p \in Cpus : IsPrimary(p) /\ pc[p] = "late_store"
    /\ timed_out
    /\ ENTERED_CPUS > Cardinality(vmSet)
    /\ \E a \in Cpus : ipis[a].startup = 2

\* C12: the AP-arrival wait that ends by its timeout is not an error: the
\* BSP goes on to the next APIC id with ERROR_NUM and its own result
\* untouched, the scan index never passes max_cpus, a start_rt_cpus that is
\* past its lock always ends with INIT_LATE_OK released, and with
\* max_cpus = 4, rt_cpus = 2, VM CPUs 0 and 1, APIC id 2 arriving and APIC
\* id 3 never arriving, start_rt_cpus returns with ENTERED_CPUS = 3 and
\* ERROR_NUM = 0.
Scen12 == header = [max_cpus |-> 4, rt_cpus |-> 2] /\ vmSet = {0, 1}
Arrived(a) == pc[a] \in {"rt_activate", "rt_arch", "rt_loop"}
Returned12 ==
    /\ \E p \in Cpus : pc[p] = "late_store"
    /\ Arrived(2)
    /\ pc[3] = "off" /\ ipis[3].startup = 2

C12_TimeoutStep ==
    \A p \in Cpus :
       (pc[p] = "src_wait" /\ pc'[p] # "src_wait")
       => /\ pc'[p] = "src_loop"
          /\ scan'.apic_id = scan.apic_id + 1
          /\ ERROR_NUM' = ERROR_NUM
          /\ err'[p] = 0

C12_TimeoutNotFatal ==
    /\ [][C12_TimeoutStep]_vars
    /\ [](scan.apic_id <= header.max_cpus)
    /\ (\E p \in Cpus : pc[p] \in SrcPcs) ~> (INIT_LATE_OK = 1)
    /\ Scen12 => [](Returned12 => ENTERED_CPUS = 3 /\ ERROR_NUM = 0)

C12_Witness == Scen12 /\ Returned12 /\ timed_out /\ ENTERED_CPUS = 3

\* C13: PerCpu::new hands out ids below max_cpus only, and ENTERED_CPUS
\* never exceeds max_cpus, however many CPUs call it and however the calls
\* interleave.
C13_IdsBelowMax ==
    /\ ENTERED_CPUS <= header.max_cpus
    /\ \A p \in Cpus : id[p] # U32_MAX => id[p] < header.max_cpus

\* C14: the role of a per-CPU block is written Uninit by new() and changes
\* afterwards at most once, from Uninit to RT or from Uninit to VM; the
\* block of a CPU on the VM path is never RT and the block of a CPU on the
\* RT path is never VM.
C14_RoleStep ==
    \A k \in CpuIds :
       inner'[k] # inner[k]
       => \/ inner[k] = "None" /\ inner'[k] = "Uninit"
          \/ inner[k] = "Uninit" /\ inner'[k] \in {"Rt", "Vm"}

C14_RoleOfPath ==
    \A p \in Cpus :
       id[p] # U32_MAX
       => /\ inner[id[p]] # "None"
          /\ inner[id[p]] = "Vm" => p \in vmSet
          /\ inner[id[p]] = "Rt" => p \notin vmSet

C14_RoleMonotone == [][C14_RoleStep]_vars /\ []C14_RoleOfPath

C14_Witness ==
    /\ VmBlocks # {}
    /\ RtBlocks # {}
    /\ \E k \in CpuIds : inner[k] = "Uninit"

\* C15: a call of init_vm_cpu on a block whose role is not Uninit returns
\* an error and leaves the role as it was, and a call that fails (arch init
\* or Vcpu construction) leaves the role as it was and INITED_CPUS as it was.
C15_CallStep ==
    \A p \in Cpus :
       (pc[p] = "ivc_init" /\ pc'[p] # "ivc_init")
       => /\ inner[id[p]] # "Uninit"
             => pc'[p] = "store_err" /\ inner'[id[p]] = inner[id[p]]
          /\ pc'[p] \in {"store_err", "halted"}
             => inner'[id[p]] = inner[id[p]] /\ INITED_CPUS' = INITED_CPUS

C15_InitVmCpuChecksRole == [][C15_CallStep]_vars

\* C16: the slot of every CPU that has completed per-CPU init holds that
\* CPU's id and no other slot does; the slot of a CPU that has not run
\* per-CPU init holds u32::MAX; a written slot holds the id of the CPU with
\* that APIC id; and per-CPU init on a CPU whose APIC id is above 254
\* returns ERANGE and writes no slot, while on APIC id 254 (or below) it
\* writes the slot.
BeforePercpuInit == {"off", "tramp", "lost", "new_check", "new_fetch",
                     "enter_err", "enter_cond", "enter_fin",
                     "early_err", "early_cond", "early_fin",
                     "early_check", "early_init", "early_store",
                     "ivc_activate", "ivc_init", "rt_activate", "rt_arch"}
AfterPercpuInit == {"inited_add", "percpu_err", "percpu_cond", "percpu_fin",
                    "src_lock", "src_read", "src_loop", "src_snap", "src_start",
                    "src_wait", "src_restore", "late_store",
                    "late_err", "late_cond", "late_fin", "activate", "guest",
                    "rt_loop"}

C16_MapInv ==
    /\ \A p \in Cpus :
          pc[p] \in AfterPercpuInit
          => /\ lapic_id[p] \in ApicSlots
             /\ APIC_TO_CPU_ID[lapic_id[p]] = id[p]
             /\ \A a \in ApicSlots \ {lapic_id[p]} : APIC_TO_CPU_ID[a] # id[p]
    /\ \A p \in Cpus :
          (pc[p] \in BeforePercpuInit /\ lapic_id[p] \in ApicSlots)
          => APIC_TO_CPU_ID[lapic_id[p]] = U32_MAX
    /\ \A a \in ApicSlots :
          APIC_TO_CPU_ID[a] # U32_MAX
          => \E p \in Cpus : lapic_id[p] = a /\ id[p] = APIC_TO_CPU_ID[a]

C16_InitStep ==
    \A p \in Cpus :
       (pc[p] \in {"ivc_init", "rt_arch"} /\ pc'[p] # pc[p])
       => IF lapic_id[p] > MAX_APIC_ID
          THEN /\ APIC_TO_CPU_ID' = APIC_TO_CPU_ID
               /\ p \in vmSet => pc'[p] = "store_err" /\ err'[p] = code(ERANGE)
          ELSE /\ APIC_TO_CPU_ID'[lapic_id[p]] = id[p]
               /\ \A a \in ApicSlots \ {lapic_id[p]} :
                     APIC_TO_CPU_ID'[a] = APIC_TO_CPU_ID[a]
               /\ err'[p] # code(ERANGE)

C16_ApicMap == []C16_MapInv /\ [][C16_InitStep]_vars

\* One CPU with APIC id 254 has its slot written, another with APIC id 255
\* has got ERANGE.
C16_Witness ==
    /\ \E p \in Cpus : /\ lapic_id[p] = MAX_APIC_ID
                        /\ pc[p] \in AfterPercpuInit
                        /\ APIC_TO_CPU_ID[MAX_APIC_ID] = id[p]
    /\ \E q \in Cpus : /\ lapic_id[q] = MAX_APIC_ID + 1
                        /\ err[q] = code(ERANGE)

\* C17: the step of shutdown_rt_cpus sends one INIT IPI and no STARTUP IPI
\* to the APIC id of every CPU whose block is in role RT, and no IPI to the
\* APIC id of a CPU whose block is in role VM.
RoleOf(q) == IF id[q] = U32_MAX THEN "None" ELSE inner[id[q]]

C17_ShutdownStep ==
    (\E a \in DOMAIN ipis : ipis'[a].halt # ipis[a].halt)
    => \A q \in Cpus :
          /\ RoleOf(q) = "Rt"
             => /\ ipis'[lapic_id[q]].init = ipis[lapic_id[q]].init + 1
                /\ ipis'[lapic_id[q]].startup = ipis[lapic_id[q]].startup
          /\ RoleOf(q) = "Vm"
             => ipis'[lapic_id[q]] = ipis[lapic_id[q]]

C17_ShutdownHitsRtOnly == [][C17_ShutdownStep]_vars

\* C18: with rt_cpus >= max_cpus and all max_cpus CPUs entered on the VM
\* path, vm_cpus() is max_cpus, start_rt_cpus sends no INIT and no STARTUP
\* IPI, no block takes the RT role, and, unless a collaborator fails or the
\* config is bad, eventually every VM CPU has gone through activate_vmm into
\* the guest with ERROR_NUM = 0.
Scen18 == header.rt_cpus >= header.max_cpus /\ vmSet = Present(header)
NoIpis == \A a \in DOMAIN ipis : ipis[a].init = 0 /\ ipis[a].startup = 0
Goal18 ==
    /\ \A p \in vmSet : pc[p] = "guest"
    /\ ACTIVATED_CPUS = header.max_cpus
    /\ ERROR_NUM = 0

C18_NoRtBringUp ==
    /\ [](Scen18 => /\ vm_cpus(header) = header.max_cpus
                    /\ NoIpis
                    /\ RtBlocks = {})
    /\ Scen18 ~> (Goal18 \/ faults > 0 \/ BadConfig)

C18_Witness ==
    /\ Scen18
    /\ header.rt_cpus > header.max_cpus
    /\ header.max_cpus = MaxVmCpus
    /\ Goal18
    /\ NoIpis
    /\ INIT_LATE_OK = 1

\* C19 as stated: vm_cpus() is max(0, max_cpus - rt_cpus) for every header.
Max0(n) == IF n > 0 THEN n ELSE 0

C19_VmCpusIsClampedDifference ==
    vm_cpus(header) = Max0(header.max_cpus - header.rt_cpus)

\* C19 as amended: vm_cpus() is max_cpus - rt_cpus when rt_cpus < max_cpus
\* and max_cpus otherwise; it is never above max_cpus nor below 0 (the
\* subtraction is made only when it cannot underflow), and it agrees with
\* max(0, max_cpus - rt_cpus) exactly when rt_cpus < max_cpus or
\* max_cpus = 0.
C19_VmCpusOrAll ==
    /\ header.rt_cpus < header.max_cpus
       => vm_cpus(header) + header.rt_cpus = header.max_cpus
    /\ header.rt_cpus >= header.max_cpus => vm_cpus(header) = header.max_cpus
    /\ vm_cpus(header) \in 0 .. header.max_cpus
    /\ vm_cpus(header) = Max0(header.max_cpus - header.rt_cpus)
       <=> (header.rt_cpus < header.max_cpus \/ header.max_cpus = 0)

\* The BSP has passed the ENTER barrier alone under a header whose rt_cpus
\* is above max_cpus = 1.
C19_Witness ==
    /\ header.rt_cpus > header.max_cpus
    /\ header.max_cpus = 1
    /\ \E p \in Cpus : pc[p] = "early_check" /\ ENTERED_CPUS = vm_cpus(header)

\* C20: an AP on the RT path that has done its fetch-add on ENTERED_CPUS
\* (it holds a cpu id) has already written its slot of the APIC-to-CPU map,
\* so that the slot is filled when the BSP sees ENTERED_CPUS increase.
C20_SlotBeforeEnter ==
    \A p \in Cpus \ vmSet :
       id[p] # U32_MAX
       => /\ lapic_id[p] \in ApicSlots
          /\ APIC_TO_CPU_ID[lapic_id[p]] = id[p]

\* C21: start_rt_cpus sends an INIT or STARTUP IPI only to an APIC id whose
\* map slot is u32::MAX, with a pre-allocated cpu id below max_cpus, and
\* never to the APIC id of a CPU that has entered the hypervisor as a VM CPU.
EnteredVm(q) == q \in vmSet /\ id[q] # U32_MAX

C21_IpiStep ==
    \A a \in DOMAIN ipis :
       (ipis'[a].init > ipis[a].init \/ ipis'[a].startup > ipis[a].startup)
       => /\ apic_to_cpu_id(a) = U32_MAX
          /\ scan.new_cpu_id < header.max_cpus
          /\ \A q \in Cpus : lapic_id[q] = a => ~EnteredVm(q)

OnRtPath(p) == p \notin vmSet /\ pc[p] \in {"new_check", "new_fetch",
                                               "rt_activate", "rt_arch",
                                               "rt_loop", "halted"}

C22_OwnStack ==
    /\ \A p \in Cpus :
          (OnRtPath(p) /\ id[p] # U32_MAX) => ap_stack[p] = stack_top(id[p])
    /\ \A p, q \in Cpus :
          (p # q /\ OnRtPath(p) /\ OnRtPath(q)) => ap_stack[p] # ap_stack[q]

\* C23: ACTIVATED_CPUS is the number of VM CPUs whose vcpu.enter succeeded
\* and that have not deactivated since (a CPU whose activate_vmm failed is
\* not counted), and it never goes below 0.
C23_CountsActivated ==
    /\ ACTIVATED_CPUS = Cardinality({p \in vmSet : pc[p] = "guest"})
    /\ ACTIVATED_CPUS >= 0

====
